---- MODULE Spec2Model ----
(***************************************************************************)
(* ibsforts-plugin-babel: the post-compile Babel transform of a batch of   *)
(* ts.OutputFile values, with source-map pairing and debug hooks.          *)
(*                                                                         *)
(* Three implementations of the batch orchestrator live in the sources:    *)
(*   "compiled"   BabelPlugin.prototype.babelTransform, lib/index.js 147   *)
(*   "tsclass"    BabelPlugin.babelTransform (TypeScript), lib/index.js 347*)
(*   "standalone" babelTransform(inputFiles, options), src/index.ts 83     *)
(* and each has its babelTransformDebug wrapper.                           *)
(*                                                                         *)
(* File names are sequences of characters, texts are sequences of tokens.  *)
(***************************************************************************)
EXTENDS Integers, Sequences, FiniteSets, TLC

VARIABLES
  variant,          \* which orchestrator implementation is in use
  engine,           \* which behaviour the external engine (babel) has
  inputFiles,       \* the batch handed to the entry point
  baseline,         \* the options object as it was when the entry point was called
  babelOptions,     \* the shared, mutated options object
  entry,            \* entry point called: "none", "babelTransform", "babelTransformDebug"
  pc,               \* position of the promise chain
  hookIn,           \* debugInput invocations, one record per files.map callback
  hookOut,          \* debugOutput invocations
  ran,              \* "no", "ok", "threw": the reduce callback of babelTransform
  transformedFiles, \* the value the reduce produced
  origin,           \* for each transformed file, the index of the input it came from
  engineCalls,      \* every babel.transform call: [idx, text, options]
  promise,          \* the promise returned to the caller
  delivered,        \* the batch the caller received on resolution
  failed,           \* TRUE once a hook invocation has rejected
  \* two overlapping invocations on one event loop
  sharedObject,     \* TRUE when both invocations were given the same options object
  optionObjects,    \* the options objects, by object identity
  batchOf,          \* the batch each invocation was called with
  entryOf,          \* the entry point each invocation was made through
  ipc,              \* position of each invocation
  cursor,           \* index of the file the reduce of each invocation is at
  pendingHooks,     \* hook promises of each invocation not yet settled
  outCount,         \* number of files each reduce has produced so far
  writtenFor,       \* the configuration each invocation wrote for its current file
  engineReads,      \* every engine call: [inv, idx, read, written]
  intruded,         \* TRUE once something ran in the middle of a reduce
  \* loadBabelPlugin
  exportOf,         \* what require does for each attempt: "throws", "falsy", "plugin"
  idHasPrefix,      \* id.indexOf(prefix) === 0
  parentExists,     \* module.parent is a module
  lpc,              \* position inside loadBabelPlugin
  fromModule,       \* "module", "parent" or "null"
  plugin,           \* "null", "falsy" or "plugin"
  loadedBy,         \* the attempt whose value plugin holds
  attempts          \* the require calls made so far, in order

vars == <<variant, engine, inputFiles, baseline, babelOptions, entry, pc, hookIn,
          hookOut, ran, transformedFiles, origin, engineCalls, promise, delivered,
          failed, sharedObject, optionObjects, batchOf, entryOf, ipc, cursor, pendingHooks,
          outCount, writtenFor, engineReads, intruded, exportOf, idHasPrefix,
          parentExists, lpc, fromModule, plugin, loadedBy, attempts>>

\* The state of one batch invocation followed on its own
batchVars == <<inputFiles, baseline, babelOptions, entry, pc, hookIn, hookOut, ran,
               transformedFiles, origin, engineCalls, promise, delivered, failed>>

\* The state of two overlapping invocations
overlapVars == <<sharedObject, optionObjects, batchOf, entryOf, ipc, cursor,
                 pendingHooks, outCount, writtenFor, engineReads, intruded>>

\* The state of loadBabelPlugin
loaderVars == <<exportOf, idHasPrefix, parentExists, lpc, fromModule, plugin,
                loadedBy, attempts>>

----------------------------------------------------------------------------
(* Bounds *)

MaxFiles == 3
MaxDebugFiles == 2

----------------------------------------------------------------------------
(* Strings as character sequences *)

DotMap == <<".", "m", "a", "p">>
DotJs == <<".", "j", "s">>
DotJsx == <<".", "j", "s", "x">>

\* String.prototype.endsWith / lodash endsWith
EndsWith(s, suffix) ==
  /\ Len(s) >= Len(suffix)
  /\ SubSeq(s, Len(s) - Len(suffix) + 1, Len(s)) = suffix

\* path.basename: what follows the last "/"
RECURSIVE basename(_)
basename(p) ==
  IF \E i \in 1..Len(p) : p[i] = "/"
  THEN basename(Tail(p))
  ELSE p

Undefined == "<undefined>"
Absent == "<absent>"
NoName == <<>>

----------------------------------------------------------------------------
(* JSON values and texts *)

\* A JavaScript value as JSON.parse can return it for the texts of the model.
JsObject(root, hasSrc, srcs, file, mappings) ==
  [kind |-> "object", sourceRoot |-> root, hasSources |-> hasSrc,
   sources |-> srcs, file |-> file, mappings |-> mappings]
JsNull == [kind |-> "null", sourceRoot |-> Undefined, hasSources |-> FALSE,
           sources |-> <<>>, file |-> Undefined, mappings |-> Undefined]
JsAbsent == [kind |-> "absent", sourceRoot |-> Undefined, hasSources |-> FALSE,
             sources |-> <<>>, file |-> Undefined, mappings |-> Undefined]

\* JavaScript truthiness of a parsed value
Truthy(v) == v.kind = "object"

JsonKeys == {"sourceRoot", "sources", "file", "mappings"}

\* Value of member key in the token list of an object's members, or the default
RECURSIVE Member(_, _, _)
Member(members, key, default) ==
  IF Len(members) < 2 THEN default
  ELSE IF members[1] = key THEN members[2]
  ELSE Member(SubSeq(members, 3, Len(members)), key, default)

RECURSIVE KeysKnown(_)
KeysKnown(members) ==
  \/ Len(members) = 0
  \/ /\ Len(members) >= 2
     /\ members[1] \in JsonKeys
     /\ KeysKnown(SubSeq(members, 3, Len(members)))

\* JSON.parse: [threw, value]. A text is the literal null, or an object
\* "{" key value ... "}"; everything else is a SyntaxError.
JSONparse(text) ==
  IF text = <<"null">> THEN [threw |-> FALSE, value |-> JsNull]
  ELSE IF /\ Len(text) >= 2
          /\ text[1] = "{"
          /\ text[Len(text)] = "}"
          /\ KeysKnown(SubSeq(text, 2, Len(text) - 1))
  THEN LET members == SubSeq(text, 2, Len(text) - 1)
           hasSrc == Member(members, "sources", Undefined) # Undefined
       IN [threw |-> FALSE,
           value |-> JsObject(Member(members, "sourceRoot", Undefined),
                              hasSrc,
                              IF hasSrc THEN <<Member(members, "sources", Undefined)>>
                              ELSE <<>>,
                              Member(members, "file", Undefined),
                              Member(members, "mappings", Undefined))]
  ELSE [threw |-> TRUE, value |-> JsAbsent]

\* JSON.stringify of a map object: undefined members are left out
JSONstringify(m) ==
  <<"{">>
  \o (IF m.sourceRoot # Undefined THEN <<"sourceRoot", m.sourceRoot>> ELSE <<>>)
  \o (IF m.hasSources /\ Len(m.sources) > 0 THEN <<"sources", m.sources[1]>> ELSE <<>>)
  \o (IF m.file # Undefined THEN <<"file", m.file>> ELSE <<>>)
  \o (IF m.mappings # Undefined THEN <<"mappings", m.mappings>> ELSE <<>>)
  \o <<"}">>

----------------------------------------------------------------------------
(* ts.OutputFile *)

OutputFile(name, text, bom) ==
  [name |-> name, text |-> text, writeByteOrderMark |-> bom]

NoFile == OutputFile(NoName, <<>>, FALSE)

NameAJs == <<"a", ".", "j", "s">>
NameAJsMap == <<"a", ".", "j", "s", ".", "m", "a", "p">>
NameEJsx == <<"l", "/", "e", ".", "j", "s", "x">>
NameEJsxMap == <<"l", "/", "e", ".", "j", "s", "x", ".", "m", "a", "p">>
NameDTxt == <<"d", ".", "t", "x", "t">>
NameDTxtMap == <<"d", ".", "t", "x", "t", ".", "m", "a", "p">>

SourceText == <<"let", "x">>
SyntaxErrorText == <<"let", "let">>
PlainText == <<"hello">>

MapTextA == <<"{", "sourceRoot", "/src", "sources", "a.ts", "file", "a.js",
              "mappings", "tsc", "}">>
MapTextE == <<"{", "sources", "e.tsx", "file", "e.jsx", "mappings", "tsc", "}">>
MapTextD == <<"{", "sources", "d.in", "file", "d.txt", "mappings", "gen", "}">>
MapTextNoSources == <<"{", "file", "a.js", "}">>
MapTextNull == <<"null">>
MapTextMalformed == <<"{", "file">>

\* The files a batch is drawn from
Files ==
  { OutputFile(NameAJs, SourceText, FALSE),
    OutputFile(NameAJs, SyntaxErrorText, TRUE),
    OutputFile(NameAJsMap, MapTextA, TRUE),
    OutputFile(NameAJsMap, MapTextMalformed, FALSE),
    OutputFile(NameAJsMap, MapTextNull, FALSE),
    OutputFile(NameAJsMap, MapTextNoSources, FALSE),
    OutputFile(NameEJsx, SourceText, TRUE),
    OutputFile(NameEJsxMap, MapTextE, FALSE),
    OutputFile(NameDTxt, PlainText, TRUE),
    OutputFile(NameDTxtMap, MapTextD, FALSE) }

RECURSIVE SeqsUpTo(_, _)
SeqsUpTo(S, n) ==
  IF n = 0 THEN {<<>>}
  ELSE LET shorter == SeqsUpTo(S, n - 1)
       IN shorter \cup {Append(s, f) : s \in {t \in shorter : Len(t) = n - 1}, f \in S}

Batches == SeqsUpTo(Files, MaxFiles)

----------------------------------------------------------------------------
(* babel.IOptions: the keys this package reads or writes *)

Options(ast, spc, fname, frel, maps, root, sfile, target, inMap) ==
  [ast |-> ast, shouldPrintComment |-> spc, filename |-> fname,
   filenameRelative |-> frel, sourceMaps |-> maps,
   sourceRoot |-> root, sourceFileName |-> sfile,
   sourceMapTarget |-> target, inputSourceMap |-> inMap]

\* Options as a caller writes them (README usage): no map-related key
CleanOptions ==
  Options(TRUE, "default", NoName, NoName, FALSE, Absent, Absent, Absent, JsAbsent)

\* Options as an earlier run on a file with a map left them
DirtyOptions ==
  Options(TRUE, "default", <<"o", ".", "j", "s">>, <<"o", ".", "j", "s">>, TRUE,
          "/old", "old.ts", "old.js",
          JsObject("/old", TRUE, <<"old.ts">>, "old.js", "tsc"))

Baselines == {CleanOptions, DirtyOptions}

\* _.extend(options, {ast: false, shouldPrintComment: c => !isSourceMappingURLComment(c)})
ExtendOverrides(options) ==
  [options EXCEPT !.ast = FALSE, !.shouldPrintComment = "notSourceMappingURL"]

----------------------------------------------------------------------------
(* The external engine, babel.transform(text, options) -> {code, map}.      *)
(* "honest": a map is generated exactly when options.sourceMaps is set;     *)
(* "nomap": an engine configured or mocked to return no map.                *)
(* Text that is not valid script makes it throw.                            *)

EngineModes == {"honest", "nomap"}

MergedMappings(inputSourceMap) ==
  IF inputSourceMap.kind = "object" /\ inputSourceMap.mappings = "tsc" THEN "babel+tsc"
  ELSE IF inputSourceMap.kind = "object" /\ inputSourceMap.mappings = "gen" THEN "babel+gen"
  ELSE "babel"

babelTransformEngine(mode, text, options) ==
  LET hasMap == mode = "honest" /\ options.sourceMaps
  IN [threw |-> text = SyntaxErrorText,
      code |-> <<"babel">> \o text,
      hasMap |-> hasMap,
      map |-> IF hasMap
              THEN JsObject(IF options.sourceRoot = Absent THEN Undefined
                            ELSE options.sourceRoot,
                            TRUE,
                            <<options.sourceFileName>>,
                            IF options.sourceMapTarget = Absent THEN Undefined
                            ELSE options.sourceMapTarget,
                            MergedMappings(options.inputSourceMap))
              ELSE JsNull]

----------------------------------------------------------------------------
(* findSourceMapFile *)

findSourceMapFile(sourceFile, files) ==
  IF ~EndsWith(sourceFile.name, DotMap)
  THEN LET mapFilename == sourceFile.name \o DotMap
           mapFiles == SelectSeq(files, LAMBDA candidate : candidate.name = mapFilename)
       IN IF Len(mapFiles) > 0
          THEN [found |-> TRUE, file |-> mapFiles[1]]
          ELSE [found |-> FALSE, file |-> NoFile]
  ELSE [found |-> FALSE, file |-> NoFile]

----------------------------------------------------------------------------
(* transformFile *)

\* options.filename = inFile.name; options.filenameRelative = options.filename
SetFilename(options, inFile) ==
  [options EXCEPT !.filename = inFile.name, !.filenameRelative = inFile.name]

\* the if (inMap) branch, up to and including options.sourceRoot
SetMapOptionsHead(options, inMap) ==
  [options EXCEPT !.sourceMaps = TRUE, !.sourceRoot = inMap.sourceRoot]

\* the rest of the if (inMap) branch; inMap.sources must be an array
SetMapOptionsTail(options, inMap) ==
  [options EXCEPT !.sourceFileName = IF Len(inMap.sources) > 0 THEN inMap.sources[1]
                                     ELSE Undefined,
                  !.sourceMapTarget = inMap.file,
                  !.inputSourceMap = inMap]

ClearMapOptionsLeaky(options) ==
  [options EXCEPT !.sourceMaps = FALSE]

ClearMapOptionsNoFlag(options) ==
  [options EXCEPT !.sourceRoot = Absent,
                  !.sourceFileName = Absent, !.sourceMapTarget = Absent,
                  !.inputSourceMap = JsAbsent]

\* the else branch: sourceMaps = false and the four deletes
ClearMapOptions(options) ==
  [options EXCEPT !.sourceMaps = FALSE, !.sourceRoot = Absent,
                  !.sourceFileName = Absent, !.sourceMapTarget = Absent,
                  !.inputSourceMap = JsAbsent]

SourceMappingURLPrefix == <<"\n//# sourceMappingURL=">>

codeWithoutURL(inFile, result) ==
  result.code

\* const code = result.map ? (result.code + sourceMappingURL) : result.code
codeWithURL(inFile, result) ==
  IF result.hasMap
  THEN result.code \o SourceMappingURLPrefix \o basename(inFile.name) \o DotMap
  ELSE result.code

outSourceFile(inFile, result) ==
  OutputFile(inFile.name, codeWithURL(inFile, result), inFile.writeByteOrderMark)

outMapFile(inMapFile, result) ==
  OutputFile(inMapFile.name, JSONstringify(result.map), inMapFile.writeByteOrderMark)

\* if (inMapFile && result.map)
emitsMap(inMapFile, result) ==
  inMapFile.found /\ result.hasMap

\* [threw, options, calls, out]: whether it threw, the options object as it
\* left it, the engine calls it made and the files it returned
transformFile(inFile, options, files) ==
  LET o1 == SetFilename(options, inFile)
      inMapFile == findSourceMapFile(inFile, files)
      parsed == IF inMapFile.found THEN JSONparse(inMapFile.file.text)
                ELSE [threw |-> FALSE, value |-> JsAbsent]
      inMap == parsed.value
  IN IF parsed.threw
     THEN [threw |-> TRUE, options |-> o1, calls |-> <<>>, out |-> <<>>]
     ELSE IF Truthy(inMap) /\ ~inMap.hasSources
     THEN \* inMap.sources[0] on an object without sources: TypeError
          [threw |-> TRUE, options |-> SetMapOptionsHead(o1, inMap),
           calls |-> <<>>, out |-> <<>>]
     ELSE LET o2 == IF Truthy(inMap)
                    THEN SetMapOptionsTail(SetMapOptionsHead(o1, inMap), inMap)
                    ELSE ClearMapOptions(o1)
              result == babelTransformEngine(engine, inFile.text, o2)
              call == [text |-> inFile.text, options |-> o2]
          IN IF result.threw
             THEN [threw |-> TRUE, options |-> o2, calls |-> <<call>>, out |-> <<>>]
             ELSE [threw |-> FALSE, options |-> o2, calls |-> <<call>>,
                   out |-> IF emitsMap(inMapFile, result)
                           THEN <<outSourceFile(inFile, result),
                                  outMapFile(inMapFile.file, result)>>
                           ELSE <<outSourceFile(inFile, result)>>]

----------------------------------------------------------------------------
(* The batch orchestrators *)

Variants == {"compiled", "tsclass", "standalone"}

shouldTransformFile(fileName) ==
  EndsWith(fileName, DotJs) \/ EndsWith(fileName, DotJsx)

shouldDiscardFileNever(fileName) ==
  FALSE

shouldDiscardFile(fileName) ==
  EndsWith(fileName, DotMap)

\* What the reduce callback of the implementation does with a file:
\* "transform", "discard" or "pass"
Classify(v, fileName) ==
  CASE v = "compiled" ->
         IF shouldTransformFile(fileName) THEN "transform"
         ELSE IF shouldDiscardFile(fileName) THEN "discard"
         ELSE "pass"
    [] v = "tsclass" ->
         IF shouldTransformFile(fileName) THEN "transform" ELSE "discard"
    [] v = "standalone" ->
         IF EndsWith(fileName, DotMap) THEN "discard" ELSE "transform"

concatFront(acc, items) ==
  items \o acc

\* transformedFiles.concat(items)
concat(acc, items) ==
  acc \o items

Repeat(n, x) == [k \in 1..n |-> x]

\* inputFiles.reduce(callback, []) from file i on; a throw ends the reduce
RECURSIVE reduce(_, _, _, _)
reduce(v, files, i, acc) ==
  IF i > Len(files) \/ acc.threw THEN acc
  ELSE LET inputFile == files[i]
           what == Classify(v, inputFile.name)
       IN IF what = "transform"
          THEN LET r == transformFile(inputFile, acc.options, files)
               IN reduce(v, files, i + 1,
                         [threw |-> r.threw,
                          options |-> r.options,
                          calls |-> acc.calls \o
                                    [k \in 1..Len(r.calls) |->
                                       [idx |-> i, text |-> r.calls[k].text,
                                        options |-> r.calls[k].options]],
                          out |-> concat(acc.out, r.out),
                          origin |-> concat(acc.origin, Repeat(Len(r.out), i))])
          ELSE IF what = "discard"
          THEN reduce(v, files, i + 1, acc)
          ELSE reduce(v, files, i + 1,
                      [acc EXCEPT !.out = concat(acc.out, <<inputFile>>),
                                  !.origin = concat(acc.origin, <<i>>)])

\* The body of the .then callback of babelTransform
babelTransformBody(v, files, options) ==
  reduce(v, files, 1,
         [threw |-> FALSE,
          options |-> IF v = "standalone" THEN ExtendOverrides(options) ELSE options,
          calls |-> <<>>, out |-> <<>>, origin |-> <<>>])

----------------------------------------------------------------------------
(* Promises *)

thenOutcomeSwallow(threw) ==
  "resolved"

\* Promise.resolve().then(callback): a throw in the callback rejects the promise
thenOutcome(threw) ==
  IF threw THEN "rejected" ELSE "resolved"

PromiseAnyFulfilled(hooks) ==
  \E i \in 1..Len(hooks) : hooks[i].st = "done"

\* Promise.all(promises) fulfils when every promise has
PromiseAllFulfilled(hooks) ==
  \A i \in 1..Len(hooks) : hooks[i].st = "done"

\* Promise.all(promises) rejects as soon as one promise has
PromiseAllRejected(hooks) ==
  \E i \in 1..Len(hooks) : hooks[i].st = "failed"

filesMapSkipFirst(files) ==
  [i \in 1..(Len(files) - 1) |-> [arg |-> files[i + 1], st |-> "pending"]]

\* files.map(hook): one invocation per element, all started at once
filesMap(files) ==
  [i \in 1..Len(files) |-> [arg |-> files[i], st |-> "pending"]]

----------------------------------------------------------------------------
(* State machine *)

\* No second invocation is made
OverlapIdle ==
  /\ sharedObject = FALSE
  /\ optionObjects = <<>>
  /\ batchOf = <<>>
  /\ entryOf = <<>>
  /\ ipc = <<>>
  /\ cursor = <<>>
  /\ pendingHooks = <<>>
  /\ outCount = <<>>
  /\ writtenFor = <<>>
  /\ engineReads = <<>>
  /\ intruded = FALSE

\* enableNodeModuleResolution is off: loadBabelPlugin is not called
LoaderIdle ==
  /\ exportOf = <<>>
  /\ idHasPrefix = FALSE
  /\ parentExists = FALSE
  /\ lpc = "off"
  /\ fromModule = "null"
  /\ plugin = "null"
  /\ loadedBy = 0
  /\ attempts = <<>>

Init ==
  /\ variant \in Variants
  /\ engine \in EngineModes
  /\ inputFiles \in Batches
  /\ \E b \in Baselines :
       \* the BabelPlugin constructor has applied the overrides; the standalone
       \* function gets the caller's object as it is
       babelOptions = IF variant = "standalone" THEN b ELSE ExtendOverrides(b)
  /\ baseline = babelOptions
  /\ entry = "none"
  /\ pc = "idle"
  /\ hookIn = <<>>
  /\ hookOut = <<>>
  /\ ran = "no"
  /\ transformedFiles = <<>>
  /\ origin = <<>>
  /\ engineCalls = <<>>
  /\ promise = "none"
  /\ delivered = <<>>
  /\ failed = FALSE
  /\ OverlapIdle
  /\ LoaderIdle

\* babelTransform(inputFiles): returns Promise.resolve().then(...)
CallBabelTransform ==
  /\ pc = "idle"
  /\ entry' = "babelTransform"
  /\ promise' = "pending"
  /\ pc' = "then"
  /\ UNCHANGED <<overlapVars, loaderVars>>
  /\ UNCHANGED <<variant, engine, inputFiles, baseline, babelOptions, hookIn, hookOut,
                 ran, transformedFiles, origin, engineCalls, delivered, failed>>

\* babelTransformDebug(files, debugInput, debugOutput): Promise.all(files.map(debugInput))
CallBabelTransformDebug ==
  /\ pc = "idle"
  /\ Len(inputFiles) <= MaxDebugFiles
  /\ entry' = "babelTransformDebug"
  /\ promise' = "pending"
  /\ hookIn' = filesMap(inputFiles)
  /\ pc' = "inputHooks"
  /\ UNCHANGED <<overlapVars, loaderVars>>
  /\ UNCHANGED <<variant, engine, inputFiles, baseline, babelOptions, hookOut,
                 ran, transformedFiles, origin, engineCalls, delivered, failed>>

\* The promise of one debugInput invocation fulfils
DebugInputDone ==
  \E i \in 1..Len(hookIn) :
    /\ hookIn[i].st = "pending"
    /\ hookIn' = [hookIn EXCEPT ![i].st = "done"]
    /\ UNCHANGED <<overlapVars, loaderVars>>
    /\ UNCHANGED <<variant, engine, inputFiles, baseline, babelOptions, entry, pc,
                   hookOut, ran, transformedFiles, origin, engineCalls, promise,
                   delivered, failed>>

\* The promise of one debugInput invocation rejects
DebugInputFail ==
  \E i \in 1..Len(hookIn) :
    /\ hookIn[i].st = "pending"
    /\ hookIn' = [hookIn EXCEPT ![i].st = "failed"]
    /\ failed' = TRUE
    /\ UNCHANGED <<overlapVars, loaderVars>>
    /\ UNCHANGED <<variant, engine, inputFiles, baseline, babelOptions, entry, pc,
                   hookOut, ran, transformedFiles, origin, engineCalls, promise,
                   delivered>>

\* .then(() => babelTransform(files)) once Promise.all of the input hooks fulfilled
InputHooksFulfilled ==
  /\ pc = "inputHooks"
  /\ PromiseAllFulfilled(hookIn)
  /\ pc' = "then"
  /\ UNCHANGED <<overlapVars, loaderVars>>
  /\ UNCHANGED <<variant, engine, inputFiles, baseline, babelOptions, entry, hookIn,
                 hookOut, ran, transformedFiles, origin, engineCalls, promise,
                 delivered, failed>>

\* Promise.all of the input hooks rejected: both .then callbacks are skipped
InputHooksRejected ==
  /\ pc = "inputHooks"
  /\ PromiseAllRejected(hookIn)
  /\ promise' = "rejected"
  /\ pc' = "done"
  /\ UNCHANGED <<overlapVars, loaderVars>>
  /\ UNCHANGED <<variant, engine, inputFiles, baseline, babelOptions, entry, hookIn,
                 hookOut, ran, transformedFiles, origin, engineCalls, delivered,
                 failed>>

\* The .then callback of babelTransform: the whole reduce, synchronously
RunTransform ==
  /\ pc = "then"
  /\ LET r == babelTransformBody(variant, inputFiles, babelOptions)
         outcome == thenOutcome(r.threw)
     IN /\ babelOptions' = r.options
        /\ engineCalls' = r.calls
        /\ ran' = IF r.threw THEN "threw" ELSE "ok"
        /\ transformedFiles' = r.out
        /\ origin' = r.origin
        /\ IF outcome = "rejected"
           THEN /\ promise' = "rejected"
                /\ pc' = "done"
                /\ delivered' = delivered
           ELSE IF entry = "babelTransform"
           THEN /\ promise' = "resolved"
                /\ pc' = "done"
                /\ delivered' = r.out
           ELSE /\ promise' = promise
                /\ pc' = "transformed"
                /\ delivered' = delivered
  /\ UNCHANGED <<overlapVars, loaderVars>>
  /\ UNCHANGED <<variant, engine, inputFiles, baseline, entry, hookIn, hookOut, failed>>

\* .then(transformedFiles => Promise.all(transformedFiles.map(debugOutput)) ...)
StartOutputHooks ==
  /\ pc = "transformed"
  /\ hookOut' = filesMap(transformedFiles)
  /\ pc' = "outputHooks"
  /\ UNCHANGED <<overlapVars, loaderVars>>
  /\ UNCHANGED <<variant, engine, inputFiles, baseline, babelOptions, entry, hookIn,
                 ran, transformedFiles, origin, engineCalls, promise, delivered,
                 failed>>

\* The promise of one debugOutput invocation fulfils
DebugOutputDone ==
  \E i \in 1..Len(hookOut) :
    /\ hookOut[i].st = "pending"
    /\ hookOut' = [hookOut EXCEPT ![i].st = "done"]
    /\ UNCHANGED <<overlapVars, loaderVars>>
    /\ UNCHANGED <<variant, engine, inputFiles, baseline, babelOptions, entry, pc,
                   hookIn, ran, transformedFiles, origin, engineCalls, promise,
                   delivered, failed>>

\* The promise of one debugOutput invocation rejects
DebugOutputFail ==
  \E i \in 1..Len(hookOut) :
    /\ hookOut[i].st = "pending"
    /\ hookOut' = [hookOut EXCEPT ![i].st = "failed"]
    /\ failed' = TRUE
    /\ UNCHANGED <<overlapVars, loaderVars>>
    /\ UNCHANGED <<variant, engine, inputFiles, baseline, babelOptions, entry, pc,
                   hookIn, ran, transformedFiles, origin, engineCalls, promise,
                   delivered>>

\* .then(() => transformedFiles) once Promise.all of the output hooks fulfilled
OutputHooksFulfilled ==
  /\ pc = "outputHooks"
  /\ PromiseAllFulfilled(hookOut)
  /\ promise' = "resolved"
  /\ delivered' = transformedFiles
  /\ pc' = "done"
  /\ UNCHANGED <<overlapVars, loaderVars>>
  /\ UNCHANGED <<variant, engine, inputFiles, baseline, babelOptions, entry, hookIn,
                 hookOut, ran, transformedFiles, origin, engineCalls, failed>>

\* Promise.all of the output hooks rejected
OutputHooksRejected ==
  /\ pc = "outputHooks"
  /\ PromiseAllRejected(hookOut)
  /\ promise' = "rejected"
  /\ pc' = "done"
  /\ UNCHANGED <<overlapVars, loaderVars>>
  /\ UNCHANGED <<variant, engine, inputFiles, baseline, babelOptions, entry, hookIn,
                 hookOut, ran, transformedFiles, origin, engineCalls, delivered,
                 failed>>

Next ==
  \/ CallBabelTransform
  \/ CallBabelTransformDebug
  \/ DebugInputDone
  \/ DebugInputFail
  \/ InputHooksFulfilled
  \/ InputHooksRejected
  \/ RunTransform
  \/ StartOutputHooks
  \/ DebugOutputDone
  \/ DebugOutputFail
  \/ OutputHooksFulfilled
  \/ OutputHooksRejected

Spec == Init /\ [][Next]_vars

----------------------------------------------------------------------------
(* Vocabulary of the properties *)

Indices == 1..Len(inputFiles)

IsScript(name) == EndsWith(name, DotJs) \/ EndsWith(name, DotJsx)
IsMapName(name) == EndsWith(name, DotMap)

\* The output files that came from input i, in output order
RECURSIVE OutFrom(_, _)
OutFrom(i, k) ==
  IF k > Len(transformedFiles) THEN <<>>
  ELSE (IF origin[k] = i THEN <<transformedFiles[k]>> ELSE <<>>) \o OutFrom(i, k + 1)

OutOf(i) == OutFrom(i, 1)

CallsOf(i) == SelectSeq(engineCalls, LAMBDA c : c.idx = i)

\* The batch holds a file named after input i with ".map" appended
MapIndices(i) == {j \in Indices : inputFiles[j].name = inputFiles[i].name \o DotMap}
HasMapInBatch(i) == MapIndices(i) # {}
FirstMapIndex(i) == CHOOSE j \in MapIndices(i) : \A h \in MapIndices(i) : j <= h

\* What the engine returned for the call c
ResultOf(c) == babelTransformEngine(engine, c.text, c.options)

OutputNames == {transformedFiles[k].name : k \in 1..Len(transformedFiles)}

----------------------------------------------------------------------------
(* C1 *)

\* The three-way classification by name, for input i of a finished transform
ClassifiedByName(i) ==
  LET f == inputFiles[i]
  IN IF IsScript(f.name)
     THEN /\ Len(OutOf(i)) \in {1, 2}
          /\ OutOf(i)[1].name = f.name
     ELSE IF IsMapName(f.name)
     THEN OutOf(i) = <<>>
     ELSE OutOf(i) = <<f>>

\* C1 (as claimed): in the compiled and in the TypeScript form of
\* BabelPlugin.babelTransform every input file is, by its name alone, replaced by
\* the 1 or 2 files of transformFile (.js, .jsx), dropped (.map), or present in
\* the output exactly once with the same name, text and writeByteOrderMark.
C1_ClassificationBothForms ==
  (variant \in {"compiled", "tsclass"} /\ ran = "ok")
    => \A i \in Indices : ClassifiedByName(i)

----------------------------------------------------------------------------
(* C2 *)

\* C2 (as claimed): in every entry point, the standalone babelTransform included,
\* the engine is called only on files whose name ends in .js or .jsx, and a file
\* that is neither a script nor a map (d.txt) is in the output with its text
\* unchanged, while a map without its source (a.js.map alone) is absent.
C2_EngineOnlyOnScripts ==
  /\ \A k \in 1..Len(engineCalls) : IsScript(inputFiles[engineCalls[k].idx].name)
  /\ ran = "ok" =>
       \A i \in Indices :
         /\ (~IsScript(inputFiles[i].name) /\ ~IsMapName(inputFiles[i].name))
              => OutOf(i) = <<inputFiles[i]>>
         /\ IsMapName(inputFiles[i].name) => OutOf(i) = <<>>

----------------------------------------------------------------------------
(* C3 *)

TrailerOfEJsx ==
  <<"\n//# sourceMappingURL=", "e", ".", "j", "s", "x", ".", "m", "a", "p">>

\* Input i is a script with a map file in the batch, and the engine returned a map
PairedAndMapped(i) ==
  /\ IsScript(inputFiles[i].name)
  /\ HasMapInBatch(i)
  /\ Len(CallsOf(i)) = 1
  /\ ResultOf(CallsOf(i)[1]).hasMap

\* C3: when the batch holds F.name + ".map" and the engine returns a map for the
\* script F, the output holds exactly two files for F: F.name with the engine's
\* code followed by "\n//# sourceMappingURL=<basename>.map" and F's
\* writeByteOrderMark, then F.name + ".map" with the serialised produced map and
\* the writeByteOrderMark of the input map file (the first of that name).
C3_MapPairing ==
  ran = "ok" =>
    \A i \in Indices :
      PairedAndMapped(i) =>
        LET f == inputFiles[i]
            m == inputFiles[FirstMapIndex(i)]
            res == ResultOf(CallsOf(i)[1])
            out == OutOf(i)
        IN /\ Len(out) = 2
           /\ out[1].name = f.name
           /\ out[1].writeByteOrderMark = f.writeByteOrderMark
           /\ Len(out[1].text) > Len(res.code)
           /\ SubSeq(out[1].text, 1, Len(res.code)) = res.code
           /\ out[1].text[Len(res.code) + 1] = "\n//# sourceMappingURL="
           /\ EndsWith(out[1].text, DotMap)
           /\ f.name = NameAJs =>
                out[1].text = res.code \o <<"\n//# sourceMappingURL=">> \o NameAJsMap
           /\ f.name = NameEJsx => out[1].text = res.code \o TrailerOfEJsx
           /\ out[2].name = f.name \o DotMap
           /\ out[2].text = JSONstringify(res.map)
           /\ out[2].text # m.text
           /\ out[2].writeByteOrderMark = m.writeByteOrderMark

C3_Witness ==
  /\ ran = "ok"
  /\ \E i \in Indices :
       /\ PairedAndMapped(i)
       /\ inputFiles[i].name = NameEJsx
       /\ Len(OutOf(i)) = 2
       /\ inputFiles[i].writeByteOrderMark
            # inputFiles[FirstMapIndex(i)].writeByteOrderMark

----------------------------------------------------------------------------
(* C4 *)

\* Input i is a script with no map file in the batch
Unpaired(i) ==
  /\ IsScript(inputFiles[i].name)
  /\ ~HasMapInBatch(i)

HasTrailer(text) ==
  \E k \in 1..Len(text) : text[k] = "\n//# sourceMappingURL="

\* C4: for a script F with no F.name + ".map" in the batch, every engine call
\* for F has map generation disabled, and a finished transform holds exactly one
\* output file for F: F's name and writeByteOrderMark, the engine's code with no
\* sourceMappingURL trailer, and no map file.
C4_MapAbsence ==
  /\ \A k \in 1..Len(engineCalls) :
       Unpaired(engineCalls[k].idx) => engineCalls[k].options.sourceMaps = FALSE
  /\ ran = "ok" =>
       \A i \in Indices :
         Unpaired(i) =>
           /\ Len(CallsOf(i)) = 1
           /\ OutOf(i) = <<OutputFile(inputFiles[i].name,
                                      ResultOf(CallsOf(i)[1]).code,
                                      inputFiles[i].writeByteOrderMark)>>
           /\ ~HasTrailer(OutOf(i)[1].text)

C4_Witness ==
  /\ ran = "ok"
  /\ baseline.sourceMaps
  /\ engine = "honest"
  /\ \E i \in Indices : Unpaired(i) /\ Len(OutOf(i)) = 1

----------------------------------------------------------------------------
(* C5 *)

\* The engine was called for input i and returned a map
EngineMapped(i) ==
  /\ Len(CallsOf(i)) = 1
  /\ ResultOf(CallsOf(i)[1]).hasMap

\* Output k is the map regenerated for its source: it comes from the transform
\* of a file that is not a map, sits right after that file's code, and holds the
\* serialised map the engine returned
Regenerated(k) ==
  LET i == origin[k]
  IN /\ ~IsMapName(inputFiles[i].name)
     /\ transformedFiles[k].name = inputFiles[i].name \o DotMap
     /\ HasMapInBatch(i)
     /\ EngineMapped(i)
     /\ transformedFiles[k].text = JSONstringify(ResultOf(CallsOf(i)[1]).map)

----------------------------------------------------------------------------
(* C6 *)

\* Input i with its map file, if any, as a batch of its own
AloneBatch(i) ==
  <<inputFiles[i]>> \o
    (IF HasMapInBatch(i) THEN <<inputFiles[FirstMapIndex(i)]>> ELSE <<>>)

\* The transform of that batch from the baseline configuration
Alone(i) == babelTransformBody(variant, AloneBatch(i), baseline)

\* C6: the configuration the engine gets for a file, and the output files of that
\* file, are those of running the file (with its map, if any) alone in its own
\* batch from the same baseline configuration, whatever was transformed before it.
C6_NoLeakBetweenFiles ==
  /\ \A k \in 1..Len(engineCalls) :
       LET c == engineCalls[k]
       IN /\ Len(Alone(c.idx).calls) = 1
          /\ Alone(c.idx).calls[1].options = c.options
          /\ Alone(c.idx).calls[1].text = c.text
  /\ ran = "ok" =>
       \A i \in Indices :
         ~IsMapName(inputFiles[i].name) =>
           /\ ~Alone(i).threw
           /\ Alone(i).out = OutOf(i)

\* File 1 has a map, file 2 has none, both were transformed
C6_Witness ==
  /\ ran = "ok"
  /\ \E i, j \in Indices :
       /\ i < j
       /\ PairedAndMapped(i)
       /\ Unpaired(j)
       /\ Len(CallsOf(j)) = 1
       /\ CallsOf(i)[1].options.sourceRoot = "/src"
       /\ CallsOf(j)[1].options.sourceRoot = Absent

----------------------------------------------------------------------------
(* C10 *)

\* C10: the output is a left-to-right fold of the input: the output files of an
\* earlier surviving input precede those of a later one, and a regenerated map
\* is right after its transformed source, wherever the original map was.
C10_OutputOrder ==
  ran = "ok" =>
    /\ \A k, l \in 1..Len(transformedFiles) : k < l => origin[k] <= origin[l]
    /\ \A i \in Indices :
         Classify(variant, inputFiles[i].name) # "discard" => OutOf(i) # <<>>
    /\ \A k \in 1..Len(transformedFiles) :
         IsMapName(transformedFiles[k].name) =>
           /\ k > 1
           /\ origin[k - 1] = origin[k]
           /\ transformedFiles[k - 1].name \o DotMap = transformedFiles[k].name

\* The original map came before its source, and a later file survived too
C10_Witness ==
  /\ ran = "ok"
  /\ variant = "compiled"
  /\ Len(transformedFiles) = 3
  /\ \E i \in Indices :
       /\ PairedAndMapped(i)
       /\ FirstMapIndex(i) < i
       /\ \E j \in Indices : j > i /\ OutOf(j) = <<inputFiles[j]>>

----------------------------------------------------------------------------
(* C7 *)

InputHookFailed == \E i \in 1..Len(hookIn) : hookIn[i].st = "failed"
OutputHookFailed == \E i \in 1..Len(hookOut) : hookOut[i].st = "failed"

\* C7: in babelTransformDebug the input hook is invoked once for each file of
\* the original batch and all these invocations have completed before any file
\* is transformed; the output hook is invoked once for each file of the result
\* batch, only after the transform has finished, and all these invocations have
\* completed before the promise resolves with the result batch.
C7_HooksAroundTransform ==
  entry = "babelTransformDebug" =>
    /\ Len(hookIn) = Len(inputFiles)
    /\ \A i \in 1..Len(hookIn) : hookIn[i].arg = inputFiles[i]
    /\ (ran # "no" \/ engineCalls # <<>> \/ pc = "then") =>
         \A i \in 1..Len(hookIn) : hookIn[i].st = "done"
    /\ hookOut # <<>> => ran = "ok"
    /\ pc \in {"outputHooks"} \/ promise = "resolved" =>
         /\ ran = "ok"
         /\ Len(hookOut) = Len(transformedFiles)
         /\ \A i \in 1..Len(hookOut) : hookOut[i].arg = transformedFiles[i]
    /\ promise = "resolved" =>
         /\ \A i \in 1..Len(hookOut) : hookOut[i].st = "done"
         /\ delivered = transformedFiles

C7_Witness ==
  /\ entry = "babelTransformDebug"
  /\ promise = "resolved"
  /\ Len(hookIn) = 2
  /\ Len(hookOut) = 2
  /\ Len(engineCalls) = 1

----------------------------------------------------------------------------
(* C8 *)

\* What holds of a failed hook at every moment: after an input hook failed the
\* orchestrator is never run and no output hook is invoked; after any hook
\* failed the promise is never resolved and the caller gets no batch; once the
\* chain has ended the promise is rejected.
HookFailureIsFatal ==
  /\ InputHookFailed => (ran = "no" /\ engineCalls = <<>> /\ hookOut = <<>>)
  /\ failed => (promise # "resolved" /\ delivered = <<>>)
  /\ (failed /\ pc = "done") => promise = "rejected"

\* No hook invocation changes state (starts, fulfils, rejects) after a failure
NothingProceedsAfterFailure ==
  failed => (hookIn' = hookIn /\ hookOut' = hookOut)

\* No hook invocation starts after a failure
NothingStartsAfterFailure ==
  failed => (Len(hookIn') = Len(hookIn) /\ Len(hookOut') = Len(hookOut))

DebugFiles ==
  { OutputFile(NameAJs, SourceText, FALSE),
    OutputFile(NameAJs, SyntaxErrorText, TRUE),
    OutputFile(NameAJsMap, MapTextA, TRUE),
    OutputFile(NameAJsMap, MapTextMalformed, FALSE),
    OutputFile(NameDTxt, PlainText, TRUE) }

InitDebug ==
  /\ Init
  /\ inputFiles \in SeqsUpTo(DebugFiles, MaxDebugFiles)

\* The event loop runs every promise reaction that is ready; a hook may stay
\* pending for ever
FairSpec ==
  /\ InitDebug
  /\ [][Next]_vars
  /\ WF_vars(InputHooksRejected)
  /\ WF_vars(OutputHooksRejected)

----------------------------------------------------------------------------
(* C9 *)

\* JSON.parse of the map file of input i throws
ParseFails(i) ==
  /\ HasMapInBatch(i)
  /\ inputFiles[FirstMapIndex(i)].text \in {MapTextMalformed}

\* The map file of input i parses to an object without sources
SourcesMissing(i) ==
  /\ HasMapInBatch(i)
  /\ inputFiles[FirstMapIndex(i)].text = MapTextNoSources

\* The engine throws on the text of input i
EngineFails(i) == inputFiles[i].text = SyntaxErrorText

\* The transform of input i fails
Fails(i) ==
  /\ Classify(variant, inputFiles[i].name) = "transform"
  /\ (ParseFails(i) \/ SourcesMissing(i) \/ EngineFails(i))

FailingIndices == {i \in Indices : Fails(i)}
FirstFailing == CHOOSE i \in FailingIndices : \A h \in FailingIndices : i <= h

\* C9: when the parse of a map file or the engine fails on a file of the batch,
\* babelTransform and babelTransformDebug do not throw to the caller: the promise
\* they returned rejects, no output file is delivered, no file after the failing
\* one is transformed, and no output hook is invoked.
C9_FailureRejectsWholeBatch ==
  /\ ran # "no" => entry # "none"
  /\ ran # "no" => (ran = "threw" <=> FailingIndices # {})
  /\ ran = "threw" =>
       /\ promise = "rejected"
       /\ pc = "done"
       /\ delivered = <<>>
       /\ hookOut = <<>>
       /\ \A k \in 1..Len(engineCalls) : engineCalls[k].idx <= FirstFailing
       /\ \A i \in Indices :
            (i < FirstFailing /\ Classify(variant, inputFiles[i].name) = "transform")
              => Len(CallsOf(i)) = 1
  /\ (ran = "no" /\ FailingIndices # {}) => promise # "resolved"

\* The engine fails on the second of three scripts: the first was transformed,
\* the third was not, and nothing was delivered
C9_Witness ==
  /\ ran = "threw"
  /\ Len(inputFiles) = 3
  /\ IsScript(inputFiles[1].name)
  /\ IsScript(inputFiles[3].name)
  /\ FirstFailing = 2
  /\ EngineFails(2)
  /\ Len(CallsOf(1)) = 1
  /\ CallsOf(3) = <<>>
  /\ promise = "rejected"

----------------------------------------------------------------------------
(* C11 *)

\* The document JSON.parse yields for the map file of input i
ParsedMapOf(i) == JSONparse(inputFiles[FirstMapIndex(i)].text).value

\* C11 (as claimed): when findSourceMapFile finds a map file for F, then for
\* every text of that map file transformFile either fails or calls the engine
\* with map generation enabled and with sourceRoot, sourceFileName (the first
\* of sources), sourceMapTarget (file) and inputSourceMap taken from the parsed
\* document; the engine is never called for F with map generation disabled.
C11_FoundMapEnablesMaps ==
  \A k \in 1..Len(engineCalls) :
    LET c == engineCalls[k]
    IN HasMapInBatch(c.idx) =>
         /\ c.options.sourceMaps = TRUE
         /\ c.options.sourceRoot = ParsedMapOf(c.idx).sourceRoot
         /\ c.options.sourceFileName = ParsedMapOf(c.idx).sources[1]
         /\ c.options.sourceMapTarget = ParsedMapOf(c.idx).file
         /\ c.options.inputSourceMap = ParsedMapOf(c.idx)

----------------------------------------------------------------------------
(* Two overlapping invocations on one event loop *)

MaxOverlapFiles == 2

Invocations == {1, 2}

OverlapFiles ==
  { OutputFile(NameAJs, SourceText, FALSE),
    OutputFile(NameAJsMap, MapTextA, FALSE),
    OutputFile(NameEJsx, SourceText, FALSE) }

\* Non-empty batches in which no file occurs twice
OverlapBatches ==
  {b \in SeqsUpTo(OverlapFiles, MaxOverlapFiles) :
     /\ Len(b) >= 1
     /\ \A i, j \in 1..Len(b) : b[i] = b[j] => i = j}

\* The options object invocation k was given
ObjOf(k) == IF sharedObject THEN 1 ELSE k

\* The file the reduce of invocation k is at
CurrentFile(k) == batchOf[k][cursor[k]]

CallStackEmptyAnytime ==
  TRUE

\* A callback is dispatched only when no other is running: the reduce callback
\* is synchronous code (no await, no yield, no callback handed to the engine),
\* so it runs to completion before the event loop dispatches anything else
CallStackEmpty ==
  \A j \in Invocations : ipc[j] \notin {"reduce", "engine"}

\* Invocation k takes a step while the reduce of another invocation is under way
Intrudes(k) == \E j \in Invocations \ {k} : ipc[j] \in {"reduce", "engine"}

\* No batch is followed on its own
BatchIdle ==
  /\ inputFiles = <<>>
  /\ baseline = babelOptions
  /\ entry = "none"
  /\ pc = "idle"
  /\ hookIn = <<>>
  /\ hookOut = <<>>
  /\ ran = "no"
  /\ transformedFiles = <<>>
  /\ origin = <<>>
  /\ engineCalls = <<>>
  /\ promise = "none"
  /\ delivered = <<>>
  /\ failed = FALSE

InitOverlap ==
  /\ variant \in Variants
  /\ engine \in EngineModes
  /\ babelOptions = IF variant = "standalone" THEN CleanOptions
                    ELSE ExtendOverrides(CleanOptions)
  /\ BatchIdle
  /\ LoaderIdle
  /\ sharedObject \in BOOLEAN
  /\ optionObjects = [o \in Invocations |-> babelOptions]
  /\ batchOf \in [Invocations -> OverlapBatches]
  /\ entryOf = [k \in Invocations |-> "none"]
  /\ ipc = [k \in Invocations |-> "idle"]
  /\ cursor = [k \in Invocations |-> 0]
  /\ pendingHooks = [k \in Invocations |-> 0]
  /\ outCount = [k \in Invocations |-> 0]
  /\ writtenFor = [k \in Invocations |-> babelOptions]
  /\ engineReads = <<>>
  /\ intruded = FALSE

\* The caller calls babelTransform(inputFiles): Promise.resolve().then(callback)
\* queues the callback
OverlapCallTransform(k) ==
  /\ ipc[k] = "idle"
  /\ CallStackEmpty
  /\ entryOf' = [entryOf EXCEPT ![k] = "babelTransform"]
  /\ ipc' = [ipc EXCEPT ![k] = "queued"]
  /\ intruded' = (intruded \/ Intrudes(k))
  /\ UNCHANGED <<variant, engine, batchVars, loaderVars, sharedObject, optionObjects,
                 batchOf, cursor, pendingHooks, outCount, writtenFor, engineReads>>

\* The caller calls babelTransformDebug: files.map(debugInput) starts one hook
\* per file
OverlapCallDebug(k) ==
  /\ ipc[k] = "idle"
  /\ CallStackEmpty
  /\ entryOf' = [entryOf EXCEPT ![k] = "babelTransformDebug"]
  /\ ipc' = [ipc EXCEPT ![k] = "inputHooks"]
  /\ pendingHooks' = [pendingHooks EXCEPT ![k] = Len(batchOf[k])]
  /\ intruded' = (intruded \/ Intrudes(k))
  /\ UNCHANGED <<variant, engine, batchVars, loaderVars, sharedObject, optionObjects,
                 batchOf, cursor, outCount, writtenFor, engineReads>>

\* A callback of a debug hook of invocation k runs and settles its promise
HookCallback(k) ==
  /\ ipc[k] \in {"inputHooks", "outputHooks"}
  /\ pendingHooks[k] > 0
  /\ CallStackEmpty
  /\ pendingHooks' = [pendingHooks EXCEPT ![k] = @ - 1]
  /\ intruded' = (intruded \/ Intrudes(k))
  /\ UNCHANGED <<variant, engine, batchVars, loaderVars, sharedObject, optionObjects,
                 batchOf, entryOf, ipc, cursor, outCount, writtenFor, engineReads>>

\* .then(() => babelTransform(files)): every debugInput promise has fulfilled
OverlapInputHooksFulfilled(k) ==
  /\ ipc[k] = "inputHooks"
  /\ pendingHooks[k] = 0
  /\ CallStackEmpty
  /\ ipc' = [ipc EXCEPT ![k] = "queued"]
  /\ intruded' = (intruded \/ Intrudes(k))
  /\ UNCHANGED <<variant, engine, batchVars, loaderVars, sharedObject, optionObjects,
                 batchOf, entryOf, cursor, pendingHooks, outCount, writtenFor,
                 engineReads>>

\* The event loop dispatches the .then callback of babelTransform; the
\* standalone function first extends the options object with its overrides
StartReduce(k) ==
  /\ ipc[k] = "queued"
  /\ CallStackEmpty
  /\ ipc' = [ipc EXCEPT ![k] = "reduce"]
  /\ cursor' = [cursor EXCEPT ![k] = 1]
  /\ optionObjects' = IF variant = "standalone"
                      THEN [optionObjects EXCEPT
                              ![ObjOf(k)] = ExtendOverrides(optionObjects[ObjOf(k)])]
                      ELSE optionObjects
  /\ intruded' = (intruded \/ Intrudes(k))
  /\ UNCHANGED <<variant, engine, batchVars, loaderVars, sharedObject, batchOf,
                 entryOf, pendingHooks, outCount, writtenFor, engineReads>>

\* The reduce callback on a file that is discarded or passed through
SkipFile(k) ==
  /\ ipc[k] = "reduce"
  /\ cursor[k] <= Len(batchOf[k])
  /\ Classify(variant, CurrentFile(k).name) # "transform"
  /\ outCount' = [outCount EXCEPT
                    ![k] = IF Classify(variant, CurrentFile(k).name) = "pass"
                           THEN @ + 1 ELSE @]
  /\ cursor' = [cursor EXCEPT ![k] = @ + 1]
  /\ intruded' = (intruded \/ Intrudes(k))
  /\ UNCHANGED <<variant, engine, batchVars, loaderVars, sharedObject, optionObjects,
                 batchOf, entryOf, ipc, pendingHooks, writtenFor, engineReads>>

\* transformFile up to the engine call: the per-file keys are written on the
\* options object; a throw before the engine call rejects the invocation
Overlay(k) ==
  /\ ipc[k] = "reduce"
  /\ cursor[k] <= Len(batchOf[k])
  /\ Classify(variant, CurrentFile(k).name) = "transform"
  /\ LET r == transformFile(CurrentFile(k), optionObjects[ObjOf(k)], batchOf[k])
     IN /\ optionObjects' = [optionObjects EXCEPT ![ObjOf(k)] = r.options]
        /\ writtenFor' = [writtenFor EXCEPT ![k] = r.options]
        /\ ipc' = [ipc EXCEPT ![k] = IF r.calls = <<>> THEN "done" ELSE "engine"]
  /\ intruded' = (intruded \/ Intrudes(k))
  /\ UNCHANGED <<variant, engine, batchVars, loaderVars, sharedObject, batchOf,
                 entryOf, cursor, pendingHooks, outCount, engineReads>>

\* babel.transform(inFile.text, options): the engine reads the options object
\* as it is now; the files transformFile returns are concatenated
EngineCall(k) ==
  /\ ipc[k] = "engine"
  /\ LET read == optionObjects[ObjOf(k)]
         result == babelTransformEngine(engine, CurrentFile(k).text, read)
         inMapFile == findSourceMapFile(CurrentFile(k), batchOf[k])
     IN /\ engineReads' = Append(engineReads,
                                 [inv |-> k, idx |-> cursor[k], read |-> read,
                                  written |-> writtenFor[k]])
        /\ ipc' = [ipc EXCEPT ![k] = IF result.threw THEN "done" ELSE "reduce"]
        /\ outCount' = [outCount EXCEPT
                          ![k] = IF result.threw THEN @
                                 ELSE IF emitsMap(inMapFile, result) THEN @ + 2
                                 ELSE @ + 1]
  /\ cursor' = [cursor EXCEPT ![k] = @ + 1]
  /\ intruded' = (intruded \/ Intrudes(k))
  /\ UNCHANGED <<variant, engine, batchVars, loaderVars, sharedObject, optionObjects,
                 batchOf, entryOf, pendingHooks, writtenFor>>

\* The reduce returns: babelTransform resolves, and babelTransformDebug starts
\* one debugOutput hook per transformed file
FinishReduce(k) ==
  /\ ipc[k] = "reduce"
  /\ cursor[k] > Len(batchOf[k])
  /\ ipc' = [ipc EXCEPT ![k] = IF entryOf[k] = "babelTransformDebug"
                               THEN "outputHooks" ELSE "done"]
  /\ pendingHooks' = [pendingHooks EXCEPT
                        ![k] = IF entryOf[k] = "babelTransformDebug"
                               THEN outCount[k] ELSE @]
  /\ intruded' = (intruded \/ Intrudes(k))
  /\ UNCHANGED <<variant, engine, batchVars, loaderVars, sharedObject, optionObjects,
                 batchOf, entryOf, cursor, outCount, writtenFor, engineReads>>

\* .then(() => transformedFiles): every debugOutput promise has fulfilled
OverlapOutputHooksFulfilled(k) ==
  /\ ipc[k] = "outputHooks"
  /\ pendingHooks[k] = 0
  /\ CallStackEmpty
  /\ ipc' = [ipc EXCEPT ![k] = "done"]
  /\ intruded' = (intruded \/ Intrudes(k))
  /\ UNCHANGED <<variant, engine, batchVars, loaderVars, sharedObject, optionObjects,
                 batchOf, entryOf, cursor, pendingHooks, outCount, writtenFor,
                 engineReads>>

NextOverlap ==
  \E k \in Invocations :
    \/ OverlapCallTransform(k)
    \/ OverlapCallDebug(k)
    \/ HookCallback(k)
    \/ OverlapInputHooksFulfilled(k)
    \/ StartReduce(k)
    \/ SkipFile(k)
    \/ Overlay(k)
    \/ EngineCall(k)
    \/ FinishReduce(k)
    \/ OverlapOutputHooksFulfilled(k)

SpecOverlap == InitOverlap /\ [][NextOverlap]_vars

(* C12 *)
\* The file an engine call of the log was made for
FileOfRead(r) == batchOf[r.inv][r.idx]

\* C12: nothing runs in the middle of the reduce of an invocation (no hook
\* callback, no step of the other invocation), and the configuration the engine
\* reads for a file is the one the same invocation wrote for that file, also
\* when both invocations share one options object.
C12_ReduceUninterrupted ==
  /\ ~intruded
  /\ \A n \in 1..Len(engineReads) :
       LET r == engineReads[n]
       IN /\ r.read = r.written
          /\ r.read.filename = FileOfRead(r).name
          /\ r.read.sourceMaps = findSourceMapFile(FileOfRead(r), batchOf[r.inv]).found

\* Two invocations on one options object overlap: the second has transformed
\* its batch while debug hooks of the first are still pending, and the two
\* wrote different configurations
C12_Witness ==
  /\ sharedObject
  /\ ipc[1] = "outputHooks"
  /\ pendingHooks[1] > 0
  /\ ipc[2] = "done"
  /\ \E m, n \in 1..Len(engineReads) :
       /\ engineReads[m].inv = 1
       /\ engineReads[n].inv = 2
       /\ engineReads[m].read.sourceMaps # engineReads[n].read.sourceMaps

----------------------------------------------------------------------------
(* loadBabelPlugin *)

\* Cap on the require calls followed
MaxAttempts == 6

\* What fromModule.require can do: throw, return a falsy export, return a plugin
RequireOutcomes == {"throws", "falsy", "plugin"}

\* The four require calls the loader is meant to make, in order
BareFromModule == 1
PrefixedFromModule == 2
BareFromParent == 3
PrefixedFromParent == 4
Attempts == {BareFromModule, PrefixedFromModule, BareFromParent, PrefixedFromParent}

\* fromModule.require(id) and fromModule.require(prefix + id)
RequireBare(from) == IF from = "module" THEN BareFromModule ELSE BareFromParent
RequirePrefixed(from) == IF from = "module" THEN PrefixedFromModule ELSE PrefixedFromParent

\* What plugin holds after plugin = fromModule.require(...) returned
Loaded(outcome) == IF outcome = "plugin" THEN "plugin" ELSE "falsy"

\* The constructor is about to call loadBabelPlugin(id); node's module cache
\* makes every require of one name from one module behave the same each time
InitLoader ==
  /\ variant \in {"compiled", "tsclass"}
  /\ engine = "honest"
  /\ babelOptions = CleanOptions
  /\ BatchIdle
  /\ OverlapIdle
  /\ exportOf \in [Attempts -> RequireOutcomes]
  /\ idHasPrefix \in BOOLEAN
  /\ parentExists \in BOOLEAN
  /\ lpc = "call"
  /\ fromModule = "null"
  /\ plugin = "null"
  /\ loadedBy = 0
  /\ attempts = <<>>

\* var fromModule = module; var plugin = null;
CallLoadBabelPlugin ==
  /\ lpc = "call"
  /\ fromModule' = "module"
  /\ plugin' = "null"
  /\ lpc' = "while"
  /\ UNCHANGED <<variant, engine, batchVars, overlapVars, exportOf, idHasPrefix,
                 parentExists, loadedBy, attempts>>

\* while (!plugin && fromModule): the loop is entered
LoopEnter ==
  /\ lpc = "while"
  /\ plugin # "plugin" /\ fromModule # "null"
  /\ lpc' = "try"
  /\ UNCHANGED <<variant, engine, batchVars, overlapVars, exportOf, idHasPrefix,
                 parentExists, fromModule, plugin, loadedBy, attempts>>

\* The loop is left: throw Error("Unable to load Babel plugin ...") or return plugin
LoopExit ==
  /\ lpc = "while"
  /\ ~(plugin # "plugin" /\ fromModule # "null")
  /\ lpc' = IF plugin # "plugin" THEN "threw" ELSE "returned"
  /\ UNCHANGED <<variant, engine, batchVars, overlapVars, exportOf, idHasPrefix,
                 parentExists, fromModule, plugin, loadedBy, attempts>>

\* try { plugin = fromModule.require(id); }: a throw enters the catch block, a
\* return (of any value) goes back to the loop test
TryRequireBare ==
  /\ lpc = "try"
  /\ Len(attempts) < MaxAttempts
  /\ LET a == RequireBare(fromModule)
     IN /\ attempts' = Append(attempts, a)
        /\ IF exportOf[a] = "throws"
           THEN /\ lpc' = "catch"
                /\ UNCHANGED <<plugin, loadedBy>>
           ELSE /\ lpc' = "while"
                /\ plugin' = Loaded(exportOf[a])
                /\ loadedBy' = a
  /\ UNCHANGED <<variant, engine, batchVars, overlapVars, exportOf, idHasPrefix,
                 parentExists, fromModule>>

\* if (!idHasPrefix) { try { plugin = fromModule.require(prefix + id); } catch (err) {} }
CatchRequirePrefixed ==
  /\ lpc = "catch"
  /\ ~idHasPrefix
  /\ Len(attempts) < MaxAttempts
  /\ LET a == RequirePrefixed(fromModule)
     IN /\ attempts' = Append(attempts, a)
        /\ IF exportOf[a] = "throws"
           THEN UNCHANGED <<plugin, loadedBy>>
           ELSE /\ plugin' = Loaded(exportOf[a])
                /\ loadedBy' = a
  /\ lpc' = "fallback"
  /\ UNCHANGED <<variant, engine, batchVars, overlapVars, exportOf, idHasPrefix,
                 parentExists, fromModule>>

\* the id already has the prefix: the second require is skipped
CatchSkipPrefixed ==
  /\ lpc = "catch"
  /\ idHasPrefix
  /\ lpc' = "fallback"
  /\ UNCHANGED <<variant, engine, batchVars, overlapVars, exportOf, idHasPrefix,
                 parentExists, fromModule, plugin, loadedBy, attempts>>

\* if (!plugin) { if (fromModule === module) fromModule = module.parent;
\*                else fromModule = null; }
Fallback ==
  /\ lpc = "fallback"
  /\ fromModule' = IF plugin = "plugin" THEN fromModule
                   ELSE IF fromModule = "module" /\ parentExists THEN "parent"
                   ELSE "null"
  /\ lpc' = "while"
  /\ UNCHANGED <<variant, engine, batchVars, overlapVars, exportOf, idHasPrefix,
                 parentExists, plugin, loadedBy, attempts>>

NextLoader ==
  \/ CallLoadBabelPlugin
  \/ LoopEnter
  \/ LoopExit
  \/ TryRequireBare
  \/ CatchRequirePrefixed
  \/ CatchSkipPrefixed
  \/ Fallback

\* Synchronous code: each step that can be taken is taken
SpecLoader == InitLoader /\ [][NextLoader]_vars /\ WF_vars(NextLoader)

(* C13 *)
LoaderDone == lpc \in {"returned", "threw"}

\* The attempts made are among the four, each at most once, in their order,
\* and the prefixed ones are skipped when the id has the prefix
FourAttemptsInOrder ==
  /\ Len(attempts) <= 4
  /\ \A i, j \in 1..Len(attempts) : i < j => attempts[i] < attempts[j]
  /\ idHasPrefix =>
       \A i \in 1..Len(attempts) : attempts[i] \in {BareFromModule, BareFromParent}

\* What is returned is the first plugin an attempt loaded; the error is thrown
\* only when no attempt loaded a plugin
ReturnsFirstLoaded ==
  /\ lpc = "returned" =>
       /\ plugin = "plugin"
       /\ attempts # <<>>
       /\ loadedBy = attempts[Len(attempts)]
       /\ exportOf[loadedBy] = "plugin"
       /\ \A i \in 1..(Len(attempts) - 1) : exportOf[attempts[i]] # "plugin"
  /\ lpc = "threw" =>
       \A i \in 1..Len(attempts) : exportOf[attempts[i]] # "plugin"

\* C13 (as claimed): loadBabelPlugin(id) terminates for every outcome of module
\* resolution, a falsy export included: it makes at most four load attempts,
\* in the order bare from this module, prefixed from this module (skipped
\* when id has the prefix), bare from the parent, prefixed from the parent,
\* returns the first plugin loaded and otherwise fails with the error.
C13_LoaderTerminates ==
  /\ [](FourAttemptsInOrder /\ ReturnsFirstLoaded)
  /\ <>LoaderDone

====
